---- MODULE Spec2Model ----
(***************************************************************************)
(* A model of the revision quiz program (src/main-revision_quiz/main.py).  *)
(*                                                                         *)
(* A text (Python str) is a sequence of characters.  A character is a      *)
(* one-character string ("a", "A", " ", "."); a character outside ASCII is *)
(* written by its code point ("U+2019" is the right single quote).  An     *)
(* optional value (Python's None or a value) is a sequence of zero or one  *)
(* element: <<>> is None, <<v>> is the value v.                            *)
(***************************************************************************)
EXTENDS Integers, Sequences, FiniteSets, TLC

VARIABLES
    pc,                 \* where the program waits: the input() it blocks on
    store,              \* the file performance.json
    performance,        \* main_menu's performance object (a JSON value)
    backend,            \* how the optional rapidfuzz import behaves
    key,                \* start_quiz: the session key "<level>_<subject>"
    selected_questions, \* start_quiz: the questions still to be asked
    question,           \* ask_question: the question asked last
    user_answer_raw,    \* ask_question: the reply typed
    accepted,           \* ask_question: accepted
    matched,            \* ask_question: matched (optional text)
    rule,               \* ask_question: the rule (1..5) whose break left the loop, 0 if none
    score,              \* ask_question: the last value of score (optional)
    s_in,               \* a text handed to normalize_text
    s_out               \* what normalize_text returned for it (optional)

vars == <<pc, store, performance, backend, key, selected_questions, question,
          user_answer_raw, accepted, matched, rule, score, s_in, s_out>>

(***************************************************************************)
(* Characters                                                              *)
(***************************************************************************)
Digits == <<"0", "1", "2", "3", "4", "5", "6", "7", "8", "9">>

LowerLetters == <<"a", "b", "c", "d", "e", "f", "g", "h", "i", "j", "k", "l", "m",
                  "n", "o", "p", "q", "r", "s", "t", "u", "v", "w", "x", "y", "z">>

UpperLetters == <<"A", "B", "C", "D", "E", "F", "G", "H", "I", "J", "K", "L", "M",
                  "N", "O", "P", "Q", "R", "S", "T", "U", "V", "W", "X", "Y", "Z">>

Range(f) == {f[i] : i \in DOMAIN f}

IndexOf(seq, c) == CHOOSE i \in DOMAIN seq : seq[i] = c

DigitSet == Range(Digits)

LowerSet == Range(LowerLetters)

UpperSet == Range(UpperLetters)

SpaceSet == {" ", "\t", "\n", "\r", "U+00A0", "U+2028", "U+3000"}

IsDigit(c) == c \in DigitSet

IsLower(c) == c \in LowerSet

IsUpper(c) == c \in UpperSet

\* str.isspace / the regex class \s: ASCII white space and Unicode separators.
IsSpace(c) == c \in SpaceSet

\* unicodedata.normalize("NFKC", c) of one character: compatibility characters
\* decompose (the ligature fi, the no-break space, fullwidth A, circled 1, the
\* ideographic space); every other character of the model is already NFKC.
Nfkc(c) ==
    CASE c = "U+FB01" -> <<"f", "i">>
      [] c = "U+00A0" -> <<" ">>
      [] c = "U+3000" -> <<" ">>
      [] c = "U+FF21" -> <<"A">>
      [] c = "U+2460" -> <<"1">>
      [] OTHER -> <<c>>

\* .replace of the four smart quotes by the plain ones
ReplaceQuote(c) ==
    CASE c = "U+2019" -> <<"'">>
      [] c = "U+2018" -> <<"'">>
      [] c = "U+201C" -> <<"\"">>
      [] c = "U+201D" -> <<"\"">>
      [] OTHER -> <<c>>

\* str.lower of one character (E-acute lowers to e-acute, dotted capital I to
\* i and a combining dot)
Lower(c) ==
    CASE IsUpper(c) -> <<LowerLetters[IndexOf(UpperLetters, c)]>>
      [] c = "U+00C9" -> <<"U+00E9">>
      [] c = "U+0130" -> <<"i", "U+0307">>
      [] OTHER -> <<c>>

\* re.sub(r"[^0-9a-z\s]", " ", s) on one character
StripSymbol(c) == IF IsDigit(c) \/ IsLower(c) \/ IsSpace(c) THEN <<c>> ELSE <<" ">>

(***************************************************************************)
(* Texts                                                                   *)
(***************************************************************************)
\* what one step of normalize_text makes of one character
StepOn(step, c) ==
    CASE step = "nfkc" -> Nfkc(c)
      [] step = "quotes" -> ReplaceQuote(c)
      [] step = "lower" -> Lower(c)
      [] step = "symbols" -> StripSymbol(c)

\* a step of normalize_text applied along the text
RECURSIVE FlatMap(_, _)
FlatMap(step, s) ==
    IF s = <<>> THEN <<>> ELSE StepOn(step, Head(s)) \o FlatMap(step, Tail(s))

RECURSIVE LStrip(_)
LStrip(s) == IF s # <<>> /\ IsSpace(Head(s)) THEN LStrip(Tail(s)) ELSE s

RECURSIVE RStrip(_)
RStrip(s) ==
    IF s # <<>> /\ IsSpace(s[Len(s)]) THEN RStrip(SubSeq(s, 1, Len(s) - 1)) ELSE s

\* str.strip()
Strip(s) == RStrip(LStrip(s))

\* re.sub(r"\s+", " ", s): every run of white space becomes one space
RECURSIVE CollapseSpaces(_)
CollapseSpaces(s) ==
    IF s = <<>> THEN <<>>
    ELSE IF IsSpace(Head(s)) THEN <<" ">> \o CollapseSpaces(LStrip(s))
    ELSE <<Head(s)>> \o CollapseSpaces(Tail(s))

\* normalize_text without its last strip()
normalize_text_no_final_strip(s) ==
    LET s1 == FlatMap("nfkc", s)
        s2 == FlatMap("quotes", s1)
        s3 == FlatMap("lower", Strip(s2))
        s4 == FlatMap("symbols", s3)
    IN  CollapseSpaces(s4)

\* normalize_text without lower()
normalize_text_no_lower(s) ==
    LET s1 == FlatMap("nfkc", s)
        s2 == FlatMap("quotes", s1)
        s3 == Strip(s2)
        s4 == FlatMap("symbols", s3)
    IN  Strip(CollapseSpaces(s4))

\* normalize_text (the argument is a str: input() and the question bank's texts)
normalize_text(s) ==
    LET s1 == FlatMap("nfkc", s)
        s2 == FlatMap("quotes", s1)
        s3 == FlatMap("lower", Strip(s2))
        s4 == FlatMap("symbols", s3)
    IN  Strip(CollapseSpaces(s4))

\* str.split(): the maximal runs of characters that are not white space
RECURSIVE Split(_)
Split(s) ==
    LET t == LStrip(s)
        RECURSIVE WordLen(_)
        WordLen(u) == IF u = <<>> \/ IsSpace(Head(u)) THEN 0 ELSE 1 + WordLen(Tail(u))
    IN  IF t = <<>> THEN <<>>
        ELSE <<SubSeq(t, 1, WordLen(t))>> \o Split(SubSeq(t, WordLen(t) + 1, Len(t)))

\* re.match(r"^([a-zA-Z0-9])[\.\)]?$", first): the letter or digit captured, or
\* no match (None)
OptionMatch(first) ==
    IF /\ Len(first) \in {1, 2}
       /\ IsDigit(first[1]) \/ IsLower(first[1]) \/ IsUpper(first[1])
       /\ Len(first) = 2 => first[2] \in {".", ")"}
    THEN <<first[1]>>
    ELSE <<>>

\* normalize_option after its first line: s is the normalized text
OptionOf(s) ==
    IF s = <<>> THEN <<>>
    ELSE IF OptionMatch(Split(s)[1]) # <<>> THEN <<Split(s)[1][1]>>
    ELSE s

\* normalize_option
normalize_option(s) == OptionOf(normalize_text(s))

(***************************************************************************)
(* Numbers                                                                 *)
(***************************************************************************)
\* _WORD_NUMS, as the sequence of its items
WORD_NUMS ==
    <<
      [w |-> <<"z", "e", "r", "o">>, n |-> 0],
      [w |-> <<"o", "n", "e">>, n |-> 1],
      [w |-> <<"t", "w", "o">>, n |-> 2],
      [w |-> <<"t", "h", "r", "e", "e">>, n |-> 3],
      [w |-> <<"f", "o", "u", "r">>, n |-> 4],
      [w |-> <<"f", "i", "v", "e">>, n |-> 5],
      [w |-> <<"s", "i", "x">>, n |-> 6],
      [w |-> <<"s", "e", "v", "e", "n">>, n |-> 7],
      [w |-> <<"e", "i", "g", "h", "t">>, n |-> 8],
      [w |-> <<"n", "i", "n", "e">>, n |-> 9],
      [w |-> <<"t", "e", "n">>, n |-> 10],
      [w |-> <<"e", "l", "e", "v", "e", "n">>, n |-> 11],
      [w |-> <<"t", "w", "e", "l", "v", "e">>, n |-> 12],
      [w |-> <<"t", "h", "i", "r", "t", "e", "e", "n">>, n |-> 13],
      [w |-> <<"f", "o", "u", "r", "t", "e", "e", "n">>, n |-> 14],
      [w |-> <<"f", "i", "f", "t", "e", "e", "n">>, n |-> 15],
      [w |-> <<"s", "i", "x", "t", "e", "e", "n">>, n |-> 16],
      [w |-> <<"s", "e", "v", "e", "n", "t", "e", "e", "n">>, n |-> 17],
      [w |-> <<"e", "i", "g", "h", "t", "e", "e", "n">>, n |-> 18],
      [w |-> <<"n", "i", "n", "e", "t", "e", "e", "n">>, n |-> 19],
      [w |-> <<"t", "w", "e", "n", "t", "y">>, n |-> 20],
      [w |-> <<"t", "h", "i", "r", "t", "y">>, n |-> 30],
      [w |-> <<"f", "o", "r", "t", "y">>, n |-> 40],
      [w |-> <<"f", "i", "f", "t", "y">>, n |-> 50],
      [w |-> <<"s", "i", "x", "t", "y">>, n |-> 60],
      [w |-> <<"s", "e", "v", "e", "n", "t", "y">>, n |-> 70],
      [w |-> <<"e", "i", "g", "h", "t", "y">>, n |-> 80],
      [w |-> <<"n", "i", "n", "e", "t", "y">>, n |-> 90]
    >>

InWordNums(w) == \E i \in DOMAIN WORD_NUMS : WORD_NUMS[i].w = w

WordNum(w) == WORD_NUMS[CHOOSE i \in DOMAIN WORD_NUMS : WORD_NUMS[i].w = w].n

\* the while loop of word_number_to_int from index i with total so far: a tens
\* word and the units word after it are consumed together; None at the first
\* word that is not a number word
RECURSIVE WordLoop(_, _, _)
WordLoop(parts, i, total) ==
    IF i > Len(parts) THEN <<total>>
    ELSE IF ~InWordNums(parts[i]) THEN <<>>
    ELSE IF /\ WordNum(parts[i]) >= 20
            /\ i + 1 <= Len(parts)
            /\ InWordNums(parts[i + 1])
            /\ WordNum(parts[i + 1]) < 10
    THEN WordLoop(parts, i + 2, total + WordNum(parts[i]) + WordNum(parts[i + 1]))
    ELSE WordLoop(parts, i + 1, total + WordNum(parts[i]))

\* word_number_to_int after its first line: s is the normalized text
WordNumberOf(s) == IF s = <<>> THEN <<>> ELSE WordLoop(Split(s), 1, 0)

\* word_number_to_int
word_number_to_int(s) == WordNumberOf(normalize_text(s))

\* A float is finite (the integer m * 10^e, m not a multiple of 10 unless 0),
\* infinite or not a number.  Every finite value is written with at most nine
\* significant digits, which a double holds exactly enough to tell any two apart.
Fin(m, e) == [k |-> "fin", m |-> m, e |-> e]

Inf == [k |-> "inf", m |-> 0, e |-> 0]

NaN == [k |-> "nan", m |-> 0, e |-> 0]

RECURSIVE NumDigits(_)
NumDigits(m) == IF m < 10 THEN 1 ELSE 1 + NumDigits(m \div 10)

RECURSIVE Pow10(_)
Pow10(e) == IF e = 0 THEN 1 ELSE 10 * Pow10(e - 1)

\* the double nearest to m * 10^e: its canonical form, or inf beyond the largest
\* double 1.7976931348623157e308
RECURSIVE ToFloat(_, _)
ToFloat(m, e) ==
    IF m = 0 THEN Fin(0, 0)
    ELSE IF m % 10 = 0 THEN ToFloat(m \div 10, e + 1)
    ELSE IF NumDigits(m) + e > 309 THEN Inf
    ELSE IF NumDigits(m) + e = 309 /\ m * Pow10(9 - NumDigits(m)) >= 179769314 THEN Inf
    ELSE Fin(m, e)

IsDigits(s) == s # <<>> /\ \A i \in DOMAIN s : IsDigit(s[i])

RECURSIVE DigitsValue(_)
DigitsValue(s) ==
    IF s = <<>> THEN 0
    ELSE 10 * DigitsValue(SubSeq(s, 1, Len(s) - 1)) + (IndexOf(Digits, s[Len(s)]) - 1)

\* float(s) of a normalized text (digits, lower-case letters, single spaces):
\* decimal digits with an optional exponent e<digits>, or inf, infinity, nan;
\* anything else is a ValueError (None here).  A sign or a decimal point cannot
\* occur: normalize_text has turned them into spaces.
FloatOf(s) ==
    LET epos == {i \in DOMAIN s : s[i] = "e"}
        ep == CHOOSE i \in epos : TRUE
    IN  IF s = <<"i", "n", "f">> \/ s = <<"i", "n", "f", "i", "n", "i", "t", "y">> THEN <<Inf>>
        ELSE IF s = <<"n", "a", "n">> THEN <<NaN>>
        ELSE IF IsDigits(s) THEN <<ToFloat(DigitsValue(s), 0)>>
        ELSE IF /\ Cardinality(epos) = 1
                /\ IsDigits(SubSeq(s, 1, ep - 1))
                /\ IsDigits(SubSeq(s, ep + 1, Len(s)))
        THEN <<ToFloat(DigitsValue(SubSeq(s, 1, ep - 1)), DigitsValue(SubSeq(s, ep + 1, Len(s))))>>
        ELSE <<>>

\* "if wn:" for "if wn is not None:", a slip that loses zero
WordFloat_truthy(wn) == IF wn # <<>> /\ wn[1] # 0 THEN <<ToFloat(wn[1], 0)>> ELSE <<>>

\* lines 208-210: float(wn) if wn is not None, else None
WordFloat(wn) == IF wn # <<>> THEN <<ToFloat(wn[1], 0)>> ELSE <<>>

\* lines 203-210: f is float(s_norm) or the ValueError caught
FloatOrWord(f, s_norm) == IF f # <<>> THEN f ELSE WordFloat(word_number_to_int(s_norm))

\* is_numeric after its first line
NumericOf(s_norm) == IF s_norm = <<>> THEN <<>> ELSE FloatOrWord(FloatOf(s_norm), s_norm)

\* is_numeric
is_numeric(s) == NumericOf(normalize_text(s))

\* abs(ua_num - ca_num) < 1e-9: with inf or nan on either side the difference is
\* inf or nan and the test fails; two finite values are integers, closer than
\* 1e-9 only when equal
NumericClose(x, y) == x.k = "fin" /\ y.k = "fin" /\ x.m = y.m /\ x.e = y.e

(***************************************************************************)
(* Similarity                                                              *)
(***************************************************************************)
\* A score is the fraction num / den (den > 0) on the scale 0..100.
Score(num, den) == [num |-> num, den |-> den]

\* the blocks a[i:i+k] == b[j:j+k] within the ranges, each as <<i, j, k>> with
\* k the longest for its start.  Positions count from 0, as in the code.
Blocks(a, b, alo, ahi, blo, bhi) ==
    LET RECURSIVE Run(_, _)
        Run(i, j) ==
            IF i < ahi /\ j < bhi /\ a[i + 1] = b[j + 1] THEN 1 + Run(i + 1, j + 1) ELSE 0
    IN  {<<i, j, Run(i, j)>> : i \in alo .. ahi - 1, j \in blo .. bhi - 1}

Max(S) == CHOOSE x \in S : \A y \in S : x >= y

Min(S) == CHOOSE x \in S : \A y \in S : x <= y

\* of the longest blocks the one that starts earliest in a, and of those the
\* one that starts earliest in b; (alo, blo, 0) when nothing matches
LongestBlock(blocks, alo, blo) ==
    LET bestsize == Max({x[3] : x \in blocks})
        besti == Min({x[1] : x \in {y \in blocks : y[3] = bestsize}})
        bestj == Min({x[2] : x \in {y \in blocks : y[3] = bestsize /\ y[1] = besti}})
    IN  IF blocks = {} \/ bestsize = 0
        THEN [i |-> alo, j |-> blo, k |-> 0]
        ELSE [i |-> besti, j |-> bestj, k |-> bestsize]

\* difflib.SequenceMatcher.find_longest_match(alo, ahi, blo, bhi) with no junk
\* (isjunk is None; texts are far shorter than the 200 items autojunk needs)
find_longest_match(a, b, alo, ahi, blo, bhi) ==
    LongestBlock(Blocks(a, b, alo, ahi, blo, bhi), alo, blo)

\* the sum of the sizes of get_matching_blocks(): the longest block x of the
\* ranges, then the same again to its left and to its right
RECURSIVE MatchingSize(_, _, _, _, _, _)
RECURSIVE AroundBlock(_, _, _, _, _, _, _)
AroundBlock(a, b, alo, ahi, blo, bhi, x) ==
    IF x.k = 0 THEN 0
    ELSE x.k
         + (IF alo < x.i /\ blo < x.j THEN MatchingSize(a, b, alo, x.i, blo, x.j) ELSE 0)
         + (IF x.i + x.k < ahi /\ x.j + x.k < bhi
            THEN MatchingSize(a, b, x.i + x.k, ahi, x.j + x.k, bhi)
            ELSE 0)

MatchingSize(a, b, alo, ahi, blo, bhi) ==
    AroundBlock(a, b, alo, ahi, blo, bhi, find_longest_match(a, b, alo, ahi, blo, bhi))

\* difflib.SequenceMatcher(None, a, b).ratio() * 100.0
DifflibRatio100(a, b) ==
    IF Len(a) + Len(b) = 0 THEN Score(100, 1)
    ELSE Score(200 * MatchingSize(a, b, 0, Len(a), 0, Len(b)), Len(a) + Len(b))

\* the order of str: by code point, digits before lower-case letters, a proper
\* prefix before the longer text
CodeOrder == Digits \o LowerLetters

CharCode(c) == IndexOf(CodeOrder, c)

RECURSIVE TextLess(_, _)
TextLess(x, y) ==
    IF y = <<>> THEN FALSE
    ELSE IF x = <<>> THEN TRUE
    ELSE IF Head(x) = Head(y) THEN TextLess(Tail(x), Tail(y))
    ELSE CharCode(Head(x)) < CharCode(Head(y))

\* sorted(tokens)
RECURSIVE Sorted(_)
Sorted(ts) ==
    LET RECURSIVE Insert(_, _)
        Insert(t, sorted) ==
            IF sorted = <<>> THEN <<t>>
            ELSE IF TextLess(t, Head(sorted)) THEN <<t>> \o sorted
            ELSE <<Head(sorted)>> \o Insert(t, Tail(sorted))
    IN  IF ts = <<>> THEN <<>> ELSE Insert(Head(ts), Sorted(Tail(ts)))

\* " ".join(tokens)
RECURSIVE Join(_)
Join(ts) ==
    IF ts = <<>> THEN <<>>
    ELSE IF Len(ts) = 1 THEN ts[1]
    ELSE ts[1] \o <<" ">> \o Join(Tail(ts))

\* the length of a longest common subsequence of a and b, by the table of the
\* lengths for their prefixes: row i + 1, column j + 1 is the length for a[1..i]
\* and b[1..j]
LcsLength(a, b) ==
    LET RECURSIVE Row(_, _, _)
        Row(ch, prev, cur) ==
            IF Len(cur) = Len(prev) THEN cur
            ELSE LET j == Len(cur)
                 IN  Row(ch, prev,
                         Append(cur, IF ch = b[j] THEN prev[j] + 1
                                     ELSE IF prev[j + 1] >= cur[j] THEN prev[j + 1]
                                     ELSE cur[j]))
        RECURSIVE Table(_)
        Table(rows) ==
            IF Len(rows) = Len(a) + 1 THEN rows
            ELSE Table(Append(rows, Row(a[Len(rows)], rows[Len(rows)], <<0>>)))
    IN  Table(<<[j \in 1 .. Len(b) + 1 |-> 0]>>)[Len(a) + 1][Len(b) + 1]

\* rapidfuzz.fuzz.ratio(x, y): the normalized Indel similarity,
\* 2 * LCS / (len + len), times 100
IndelRatio100(x, y) ==
    IF Len(x) + Len(y) = 0 THEN Score(100, 1)
    ELSE Score(200 * LcsLength(x, y), Len(x) + Len(y))

\* rapidfuzz.fuzz.token_sort_ratio(a, b): the ratio of the two texts with the
\* tokens of each sorted and joined
token_sort_ratio(a, b) == IndelRatio100(Join(Sorted(Split(a))), Join(Sorted(Split(b))))

\* The states of the optional import (lines 10-17) and of the call:
\*   "rapidfuzz"   imported, token_sort_ratio answers
\*   "no_module"   the import failed: fuzz is None, _HAS_RAPIDFUZZ is False
\*   "no_function" imported, but fuzz has no attribute token_sort_ratio
\*   "raises"      imported, and the call raises
Backends == {"rapidfuzz", "no_module", "no_function", "raises"}

HAS_RAPIDFUZZ(be) == be # "no_module"

\* A call returns a value or raises.
Returned(v) == [raised |-> FALSE, value |-> <<v>>]

Raised == [raised |-> TRUE, value |-> <<>>]

\* fuzz.token_sort_ratio(a, b) as the backend answers it
FuzzCall(be, a, b) == IF be = "raises" THEN Raised ELSE Returned(token_sort_ratio(a, b))

\* _fuzzy_ratio without its try/except: what the backend raises reaches the caller
OrFallback_no_except(r, a, b) == r

\* "except Exception: pass" and the line after it: r is what the call in the
\* try block did
OrFallback(r, a, b) == IF r.raised THEN Returned(DifflibRatio100(a, b)) ELSE r

\* _fuzzy_ratio
fuzzy_ratio(be, a, b) ==
    IF HAS_RAPIDFUZZ(be) /\ be # "no_function"
    THEN OrFallback(FuzzCall(be, a, b), a, b)
    ELSE Returned(DifflibRatio100(a, b))

(***************************************************************************)
(* The matching loop of ask_question                                       *)
(***************************************************************************)
fuzzy_threshold == 88

\* ca_norm in user_norm
IsSubstring(x, y) ==
    \E i \in 0 .. Len(y) - Len(x) : SubSeq(y, i + 1, i + Len(x)) = x

\* 1) exact normalized match
Rule1(user_norm, ca_norm) == user_norm # <<>> /\ ca_norm # <<>> /\ user_norm = ca_norm

\* 2) option token match
Rule2(user_option, ca_option) ==
    user_option # <<>> /\ ca_option # <<>> /\ user_option = ca_option

\* 3) numeric match
Rule3(ua_num, ca_num) == ua_num # <<>> /\ ca_num # <<>> /\ NumericClose(ua_num[1], ca_num[1])

\* containment without the test that ca_norm is not empty
Rule4_any(user_norm, ca_norm) == IsSubstring(ca_norm, user_norm)

\* 4) containment
Rule4(user_norm, ca_norm) == ca_norm # <<>> /\ IsSubstring(ca_norm, user_norm)

\* score >= fuzzy_threshold
AtThreshold(sc) == sc.num >= fuzzy_threshold * sc.den

\* What one pass of the loop body did: the rule whose break was taken (0: none),
\* the score if rule 5 computed one, and whether the pass raised.
Pass(n, sc, ex) == [rule |-> n, score |-> sc, raised |-> ex]

\* 5) fuzzy match: r is what _fuzzy_ratio did
FuzzyPass(r) ==
    IF r.raised THEN Pass(0, <<>>, TRUE)
    ELSE IF AtThreshold(r.value[1]) THEN Pass(5, r.value, FALSE)
    ELSE Pass(0, r.value, FALSE)

\* lines 251-284: the five tests in their order, on the locals of the pass
CascadeOn(user_norm, user_option, ca_norm, ca_option, ua_num, ca_num, be) ==
    IF Rule1(user_norm, ca_norm) THEN Pass(1, <<>>, FALSE)
    ELSE IF Rule2(user_option, ca_option) THEN Pass(2, <<>>, FALSE)
    ELSE IF Rule3(ua_num, ca_num) THEN Pass(3, <<>>, FALSE)
    ELSE IF Rule4(user_norm, ca_norm) THEN Pass(4, <<>>, FALSE)
    ELSE IF ca_norm # <<>> /\ user_norm # <<>>
    THEN FuzzyPass(fuzzy_ratio(be, user_norm, ca_norm))
    ELSE Pass(0, <<>>, FALSE)

\* one pass of the loop body for the canonical answer ca_raw
Cascade(reply, ca_raw, be) ==
    CascadeOn(normalize_text(reply), normalize_option(reply),
              normalize_text(ca_raw), normalize_option(ca_raw),
              is_numeric(reply), is_numeric(ca_raw), be)

\* What the loop leaves behind.
Outcome(acc, m, n, sc, ex) ==
    [accepted |-> acc, matched |-> m, rule |-> n, score |-> sc, raised |-> ex]

\* the loop with its breaks missing: the last canonical answer that satisfies a
\* rule is the one kept
match_loop_no_break(reply, answers, be) ==
    LET RECURSIVE Loop(_, _)
        Loop(i, out) ==
            IF i > Len(answers) THEN out
            ELSE LET c == Cascade(reply, answers[i], be)
                     sc == IF c.score # <<>> THEN c.score ELSE out.score
                 IN  IF c.raised THEN Outcome(out.accepted, out.matched, out.rule, sc, TRUE)
                     ELSE IF c.rule # 0
                     THEN Loop(i + 1, Outcome(TRUE, <<answers[i]>>, c.rule, sc, FALSE))
                     ELSE Loop(i + 1, Outcome(out.accepted, out.matched, out.rule, sc, FALSE))
    IN  Loop(1, Outcome(FALSE, <<>>, 0, <<>>, FALSE))

\* the loop turned inside out: each rule tried on every canonical answer before
\* the next rule is tried on any
match_loop_rule_major(reply, answers, be) ==
    LET Hit(n, i) ==
            LET c == Cascade(reply, answers[i], be)
                user_norm == normalize_text(reply)
                ca_norm == normalize_text(answers[i])
            IN  CASE n = 1 -> c.rule = 1
                  [] n = 2 -> Rule2(normalize_option(reply),
                                    normalize_option(answers[i]))
                  [] n = 3 -> Rule3(is_numeric(reply),
                                    is_numeric(answers[i]))
                  [] n = 4 -> Rule4(user_norm, ca_norm)
                  [] n = 5 -> /\ ca_norm # <<>>
                              /\ user_norm # <<>>
                              /\ AtThreshold(fuzzy_ratio(be, user_norm, ca_norm).value[1])
        hits == {p \in (1 .. 5) \X DOMAIN answers : Hit(p[1], p[2])}
        first == CHOOSE p \in hits :
                     \A q \in hits : p[1] < q[1] \/ (p[1] = q[1] /\ p[2] <= q[2])
    IN  IF hits = {} THEN Outcome(FALSE, <<>>, 0, <<>>, FALSE)
        ELSE Outcome(TRUE, <<answers[first[2]]>>, first[1], <<>>, FALSE)

\* the loop "for ca_raw in correct_answers_raw" from the i-th answer on, sc0
\* the score left by the passes before; c is what the pass for answers[i] did
RECURSIVE LoopFrom(_, _, _, _, _)
RECURSIVE AfterPass(_, _, _, _, _, _)
AfterPass(reply, answers, be, i, sc0, c) ==
    IF c.raised THEN Outcome(FALSE, <<>>, 0, sc0, TRUE)
    ELSE IF c.rule # 0
    THEN Outcome(TRUE, <<answers[i]>>, c.rule, IF c.score # <<>> THEN c.score ELSE sc0, FALSE)
    ELSE LoopFrom(reply, answers, be, i + 1, IF c.score # <<>> THEN c.score ELSE sc0)

LoopFrom(reply, answers, be, i, sc0) ==
    IF i > Len(answers) THEN Outcome(FALSE, <<>>, 0, sc0, FALSE)
    ELSE AfterPass(reply, answers, be, i, sc0, Cascade(reply, answers[i], be))

\* lines 243-284: accepted, matched and the loop
match_loop(reply, answers, be) == LoopFrom(reply, answers, be, 1, <<>>)

(***************************************************************************)
(* JSON values, the performance store                                      *)
(***************************************************************************)
\* A JSON value carries its type: a dict is a function on its keys, a list a
\* sequence, a number an integer.
JObj(f) == [t |-> "obj", v |-> f]

JArr(s) == [t |-> "arr", v |-> s]

JNum(n) == [t |-> "num", v |-> n]

EmptyDict == [x \in {} |-> JNum(0)]

\* d[k] = v on a dict
DictSet(d, k, v) == [x \in DOMAIN d \cup {k} |-> IF x = k THEN v ELSE d[x]]

\* {"attempted": a, "correct": c}
TopicStat(a, c) == JObj([attempted |-> JNum(a), correct |-> JNum(c)])

\* The file performance.json: absent, holding a text someone left there, or
\* holding what json.dump wrote for a value.
Absent == [exists |-> FALSE, text |-> "", dump |-> <<>>]

TextFile(txt) == [exists |-> TRUE, text |-> txt, dump |-> <<>>]

DumpFile(v) == [exists |-> TRUE, text |-> "", dump |-> <<v>>]

\* the texts a run may find in performance.json
StoreTexts ==
    {"", " \n", "{}", "{bad", "[]", "42",
     "{\"GCSE_Maths\": {\"T1\": {\"attempted\": 2, \"correct\": 1}}}",
     "{\"GCSE_Maths\": 3}",
     "{\"GCSE_Maths\": {\"T1\": {\"attempted\": 1, \"correct\": 1, \"extra\": 0}}}",
     "{\"GCSE_Maths\": {\"T1\": {\"attempted\": 0, \"correct\": []}}}"}

\* json.loads(content) of those texts: the value, or JSONDecodeError
json_loads(content) ==
    CASE content = "{}" -> Returned(JObj(EmptyDict))
      [] content = "[]" -> Returned(JArr(<<>>))
      [] content = "42" -> Returned(JNum(42))
      [] content = "{\"GCSE_Maths\": {\"T1\": {\"attempted\": 2, \"correct\": 1}}}" ->
            Returned(JObj([x \in {"GCSE_Maths"} |-> JObj([y \in {"T1"} |-> TopicStat(2, 1)])]))
      [] content = "{\"GCSE_Maths\": 3}" -> Returned(JObj([x \in {"GCSE_Maths"} |-> JNum(3)]))
      [] content = "{\"GCSE_Maths\": {\"T1\": {\"attempted\": 1, \"correct\": 1, \"extra\": 0}}}" ->
            Returned(JObj([x \in {"GCSE_Maths"} |->
                JObj([y \in {"T1"} |->
                    JObj([attempted |-> JNum(1), correct |-> JNum(1), extra |-> JNum(0)])])]))
      [] content = "{\"GCSE_Maths\": {\"T1\": {\"attempted\": 0, \"correct\": []}}}" ->
            Returned(JObj([x \in {"GCSE_Maths"} |->
                JObj([y \in {"T1"} |->
                    JObj([attempted |-> JNum(0), correct |-> JArr(<<>>)])])]))
      [] OTHER -> Raised

\* load_performance: {} for a missing or blank file and for a JSONDecodeError,
\* otherwise whatever json.loads returned
load_performance(st) ==
    IF ~st.exists THEN JObj(EmptyDict)
    ELSE IF st.dump # <<>> THEN st.dump[1]
    ELSE IF st.text \in {"", " \n"} THEN JObj(EmptyDict)
    ELSE IF json_loads(st.text).raised THEN JObj(EmptyDict)
    ELSE json_loads(st.text).value[1]

\* save_performance
save_performance(perf) == DumpFile(perf)

\* get_accuracy(data) raises: data is no dict or has no "attempted"; or
\* attempted is not 0 and "correct" is missing or the division is not one of
\* two numbers.  With attempted == 0 it returns 0 and "correct" is not read.
get_accuracy_raises(data) ==
    \/ data.t # "obj"
    \/ "attempted" \notin DOMAIN data.v
    \/ /\ ~(data.v["attempted"].t = "num" /\ data.v["attempted"].v = 0)
       /\ \/ "correct" \notin DOMAIN data.v
          \/ data.v["attempted"].t # "num"
          \/ data.v["correct"].t # "num"

\* one line of show_summary or of view_performance's inner loop raises:
\* get_accuracy(stats) does, or the f-string's stats['correct'] is missing;
\* whatever else the entry holds is printed or ignored
StatLineRaises(stats) ==
    \/ get_accuracy_raises(stats)
    \/ "correct" \notin DOMAIN stats.v

\* lines 238-241 of ask_question: the topic's entry created if missing, then
\* attempted += 1; a TypeError or KeyError where the value is not of that shape
RecordAttempt(perf, k, tp) ==
    IF perf.t # "obj" THEN Raised
    ELSE IF k \notin DOMAIN perf.v THEN Raised
    ELSE IF perf.v[k].t # "obj" THEN Raised
    ELSE LET sess == perf.v[k].v
             stat == IF tp \in DOMAIN sess THEN sess[tp] ELSE TopicStat(0, 0)
         IN  IF stat.t # "obj" THEN Raised
             ELSE IF "attempted" \notin DOMAIN stat.v THEN Raised
             ELSE IF stat.v["attempted"].t # "num" THEN Raised
             ELSE Returned(JObj(DictSet(perf.v, k, JObj(DictSet(sess, tp,
                      JObj(DictSet(stat.v, "attempted",
                                   JNum(stat.v["attempted"].v + 1))))))))

\* lines 286-291 with the test "if accepted" lost: correct += 1 on every answer
RecordCorrect_always(perf, k, tp, acc) ==
    LET sess == perf.v[k].v
        stat == sess[tp]
    IN  IF "correct" \notin DOMAIN stat.v THEN Raised
        ELSE IF stat.v["correct"].t # "num" THEN Raised
        ELSE Returned(JObj(DictSet(perf.v, k, JObj(DictSet(sess, tp,
                 JObj(DictSet(stat.v, "correct", JNum(stat.v["correct"].v + 1))))))))

\* lines 286-291 of ask_question: correct += 1 if accepted (perf is what
\* RecordAttempt returned)
RecordCorrect(perf, k, tp, acc) ==
    LET sess == perf.v[k].v
        stat == sess[tp]
    IN  IF ~acc THEN Returned(perf)
        ELSE IF "correct" \notin DOMAIN stat.v THEN Raised
        ELSE IF stat.v["correct"].t # "num" THEN Raised
        ELSE Returned(JObj(DictSet(perf.v, k, JObj(DictSet(sess, tp,
                 JObj(DictSet(stat.v, "correct", JNum(stat.v["correct"].v + 1))))))))

\* show_summary(data) and the inner loop of view_performance raise on a value
\* that has no items() or on the first entry whose line raises
SummaryRaises(data) ==
    \/ data.t # "obj"
    \/ \E tp \in DOMAIN data.v : StatLineRaises(data.v[tp])

\* "if not performance"
Falsy(x) ==
    \/ x.t = "obj" /\ DOMAIN x.v = {}
    \/ x.t = "arr" /\ x.v = <<>>
    \/ x.t = "num" /\ x.v = 0

(***************************************************************************)
(* Questions and replies                                                   *)
(***************************************************************************)
\* A question: its topic and its answer, a text or a list of texts.  items is
\* correct_answers_raw: the list, or the one text wrapped in a list.
Question(tp, is_list, items) ==
    [topic |-> tp, answer |-> [is_list |-> is_list, items |-> items]]

MaxAnswers == 2

MaxRawLen == 3

MaxAttempted == 3

\* canonical answers of the question banks
AnswerPool ==
    {<<"a", "b", "c", "d">>,
     <<"a", "b", "c", "d", "e">>,
     <<"a">>,
     <<"A">>,
     <<"a", " ", "d", "o", "g">>,
     <<"3">>,
     <<"t", "h", "r", "e", "e">>,
     <<"?">>,
     <<"c", "a", "t", " ", "d", "o", "g">>}

\* replies typed at the prompt
ReplyPool ==
    {<<"a", "b", "c", "d">>,
     <<"A">>,
     <<"a">>,
     <<"a", " ", "c", "a", "t">>,
     <<"3">>,
     <<"t", "h", "r", "e", "e">>,
     <<>>,
     <<"?", "!">>,
     <<"d", "o", "g", " ", "c", "a", "t">>,
     <<"x", "a", "b", "c", "d">>}

\* characters of the texts handed to normalize_text alone
RawAlphabet ==
    {"a",
     "B",
     "7",
     " ",
     ".",
     "\t",
     "U+2019",
     "U+FB01",
     "U+00A0",
     "U+00C9"}

AnswerLists == UNION {[1 .. n -> AnswerPool] : n \in 0 .. MaxAnswers}

MatchQuestions ==
    {Question("T1", TRUE, l) : l \in AnswerLists}
        \cup {Question("T1", FALSE, <<a>>) : a \in AnswerPool}

RawTexts == UNION {[1 .. n -> RawAlphabet] : n \in 0 .. MaxRawLen}

\* LEVELS x SUBJECTS, two of the twelve keys; questions/ holds a bank for the first
Keys == {"GCSE_Maths", "ALevel_Physics"}

\* load_questions(level, subject): [] when the file is missing
load_questions(k) ==
    IF k = "GCSE_Maths"
    THEN <<Question("T1", FALSE, <<<<"a", "b", "c", "d">>>>),
           Question("T1", TRUE, <<<<"3">>, <<"t", "h", "r", "e", "e">>>>),
           Question("T2", TRUE, <<<<"a", " ", "d", "o", "g">>>>)>>
    ELSE <<>>

\* replies typed during a session
SessionReplies ==
    {<<"a", "b", "c", "d">>,
     <<"a", "b", "c", "d", "e">>,
     <<"a", " ", "c", "a", "t">>,
     <<>>}

(***************************************************************************)
(* The program: main_menu and what it calls.  A step runs from one input() *)
(* to the next.                                                            *)
(***************************************************************************)
NoLocals ==
    /\ question = <<>>
    /\ user_answer_raw = <<>>
    /\ accepted = FALSE
    /\ matched = <<>>
    /\ rule = 0
    /\ score = <<>>

Init ==
    /\ pc = "boot"
    /\ store \in {Absent} \cup {TextFile(txt) : txt \in StoreTexts}
    /\ performance = JObj(EmptyDict)
    /\ backend \in Backends
    /\ key = ""
    /\ selected_questions = <<>>
    /\ NoLocals
    /\ s_in = <<>>
    /\ s_out = <<>>

\* main_menu, up to its first prompt: performance = load_performance()
LoadPerformance ==
    /\ pc = "boot"
    /\ performance' = load_performance(store)
    /\ pc' = "menu"
    /\ UNCHANGED <<store, backend, key, selected_questions, question, user_answer_raw,
                   accepted, matched, rule, score, s_in, s_out>>

\* every attempted that is a number, added up
TotalAttempted(perf) ==
    LET stats == {<<k, tp>> \in Keys \X {"T1", "T2"} :
                      /\ perf.t = "obj"
                      /\ k \in DOMAIN perf.v
                      /\ perf.v[k].t = "obj"
                      /\ tp \in DOMAIN perf.v[k].v
                      /\ perf.v[k].v[tp].t = "obj"
                      /\ "attempted" \in DOMAIN perf.v[k].v[tp].v
                      /\ perf.v[k].v[tp].v["attempted"].t = "num"}
        RECURSIVE Sum(_)
        Sum(S) == IF S = {} THEN 0
                  ELSE LET x == CHOOSE x \in S : TRUE
                       IN  perf.v[x[1]].v[x[2]].v["attempted"].v + Sum(S \ {x})
    IN  Sum(stats)

\* random.shuffle / random.sample of the bank (after the filters): any
\* arrangement of any of its questions
Selections(bank) ==
    {sel \in UNION {[1 .. n -> DOMAIN bank] : n \in 1 .. Len(bank)} :
        \A i, j \in DOMAIN sel : i # j => sel[i] # sel[j]}

\* start_quiz, from the menu's choice 1 to the first question's prompt (or
\* back to the menu): the session key is added to performance; "if key not in
\* performance" or the assignment raises TypeError on a value that is no dict.
\* sel = <<>> is the way back at the filter menu.  Sessions stop being started
\* once MaxAttempted answers are on record.
StartQuiz(k, sel) ==
    /\ pc = "menu"
    /\ TotalAttempted(performance) + Len(sel) <= MaxAttempted
    /\ key' = k
    /\ IF performance.t # "obj"
       THEN /\ pc' = "crashed"
            /\ UNCHANGED <<performance, selected_questions>>
       ELSE /\ performance' = IF k \in DOMAIN performance.v THEN performance
                              ELSE JObj(DictSet(performance.v, k, JObj(EmptyDict)))
            /\ IF load_questions(k) = <<>>
               THEN /\ pc' = "pause"
                    /\ selected_questions' = <<>>
               ELSE /\ selected_questions' = [i \in DOMAIN sel |-> load_questions(k)[sel[i]]]
                    /\ pc' = IF sel = <<>> THEN "menu" ELSE "asking"
    /\ UNCHANGED <<store, backend, question, user_answer_raw, accepted, matched, rule,
                   score, s_in, s_out>>

\* lines 286-294 and, after the last question, start_quiz's save_performance
\* and show_summary: p2 is what "correct += 1 if accepted" did to perf1
Recorded(perf1, p2) ==
    IF p2.raised
    THEN /\ pc' = "crashed"
         /\ performance' = perf1
         /\ UNCHANGED <<store, selected_questions>>
    ELSE /\ performance' = p2.value[1]
         /\ selected_questions' = Tail(selected_questions)
         /\ store' = IF Tail(selected_questions) = <<>>
                     THEN save_performance(p2.value[1])
                     ELSE store
         /\ pc' = IF Tail(selected_questions) # <<>> THEN "asking"
                  ELSE IF SummaryRaises(p2.value[1].v[key]) THEN "crashed"
                  ELSE "pause"

\* lines 243-284: o is what the matching loop left
Matched(q, perf1, o) ==
    /\ accepted' = o.accepted
    /\ matched' = o.matched
    /\ rule' = o.rule
    /\ score' = o.score
    /\ IF o.raised
       THEN /\ pc' = "crashed"
            /\ performance' = perf1
            /\ UNCHANGED <<store, selected_questions>>
       ELSE Recorded(perf1, RecordCorrect(perf1, key, q.topic, o.accepted))

\* lines 226-241: p1 is what "attempted += 1" did to performance
Attempted(u, q, p1) ==
    /\ question' = <<q>>
    /\ user_answer_raw' = u
    /\ IF p1.raised
       THEN /\ pc' = "crashed"
            /\ UNCHANGED <<performance, store, selected_questions, accepted, matched,
                           rule, score>>
       ELSE Matched(q, p1.value[1], match_loop(u, q.answer.items, backend))

\* ask_question(question, performance, key) on the reply u; after the last
\* question start_quiz goes on to save_performance and show_summary, up to its
\* "Press Enter".  An exception ends the program where it is raised.
AskQuestion(u) ==
    /\ pc = "asking"
    /\ selected_questions # <<>>
    /\ Attempted(u, Head(selected_questions),
                 RecordAttempt(performance, key, Head(selected_questions).topic))
    /\ UNCHANGED <<backend, key, s_in, s_out>>

\* view_performance, up to its "Press Enter"
ViewPerformance ==
    /\ pc = "menu"
    /\ pc' = IF Falsy(performance) THEN "pause"
             ELSE IF performance.t # "obj" THEN "crashed"
             ELSE IF \E k \in DOMAIN performance.v : SummaryRaises(performance.v[k])
             THEN "crashed"
             ELSE "pause"
    /\ UNCHANGED <<store, performance, backend, key, selected_questions, question,
                   user_answer_raw, accepted, matched, rule, score, s_in, s_out>>

\* clear_performance, up to its last "Press Enter": on YES the file is removed,
\* performance.clear() empties the dict (or the list; a number has no clear())
\* and the empty value is saved
ClearPerformance(yes) ==
    /\ pc = "menu"
    /\ IF ~yes
       THEN /\ pc' = "pause"
            /\ UNCHANGED <<store, performance>>
       ELSE IF performance.t = "num"
       THEN /\ pc' = "crashed"
            /\ store' = Absent
            /\ UNCHANGED performance
       ELSE /\ performance' = IF performance.t = "obj" THEN JObj(EmptyDict) ELSE JArr(<<>>)
            /\ store' = save_performance(performance')
            /\ pc' = "pause"
    /\ UNCHANGED <<backend, key, selected_questions, question, user_answer_raw, accepted,
                   matched, rule, score, s_in, s_out>>

\* Enter pressed at a "Press Enter to ..." prompt: the function returns to
\* main_menu's loop, and ask_question's locals are gone
Continue ==
    /\ pc = "pause"
    /\ pc' = "menu"
    /\ question' = <<>>
    /\ user_answer_raw' = <<>>
    /\ accepted' = FALSE
    /\ matched' = <<>>
    /\ rule' = 0
    /\ score' = <<>>
    /\ UNCHANGED <<store, performance, backend, key, selected_questions, s_in, s_out>>

\* the menu's choice 4: sys.exit()
Exit ==
    /\ pc = "menu"
    /\ pc' = "exited"
    /\ UNCHANGED <<store, performance, backend, key, selected_questions, question,
                   user_answer_raw, accepted, matched, rule, score, s_in, s_out>>

Next ==
    \/ LoadPerformance
    \/ \E k \in Keys :
          \E sel \in {<<>>} \cup Selections(load_questions(k)) : StartQuiz(k, sel)
    \/ \E u \in SessionReplies : AskQuestion(u)
    \/ ViewPerformance
    \/ \E yes \in BOOLEAN : ClearPerformance(yes)
    \/ Continue
    \/ Exit

Spec == Init /\ [][Next]_vars

(***************************************************************************)
(* One question put to the matching engine: a session on a fresh store in  *)
(* which the question drawn is the only one selected.                      *)
(***************************************************************************)
InitAsking(questions) ==
    /\ pc = "asking"
    /\ store = Absent
    /\ key = "GCSE_Maths"
    /\ performance = JObj([x \in {"GCSE_Maths"} |-> JObj(EmptyDict)])
    /\ backend \in Backends
    /\ selected_questions \in {<<q>> : q \in questions}
    /\ NoLocals
    /\ s_in = <<>>
    /\ s_out = <<>>

InitMatch == InitAsking(MatchQuestions)

NextMatch == \E u \in ReplyPool : AskQuestion(u)

SpecMatch == InitMatch /\ [][NextMatch]_vars

(***************************************************************************)
(* A number asked for in one form and answered in the other.               *)
(***************************************************************************)
WordOf(n) == WORD_NUMS[CHOOSE i \in DOMAIN WORD_NUMS : WORD_NUMS[i].n = n].w

\* Every text the word-number mapping reads as a number: one word of the
\* mapping, or a tens word from twenty on, a space or a hyphen, a units word.
NumberForms ==
    {[n |-> WORD_NUMS[i].n, words |-> WORD_NUMS[i].w] : i \in DOMAIN WORD_NUMS}
        \cup {[n |-> t + u, words |-> WordOf(t) \o sep \o WordOf(u)] :
                 t \in {20, 30, 40, 50, 60, 70, 80, 90},
                 u \in 0 .. 9,
                 sep \in {<<" ">>, <<"-">>}}

\* the decimal digits of n
RECURSIVE DigitsOf(_)
DigitsOf(n) ==
    IF n < 10 THEN <<Digits[n + 1]>> ELSE DigitsOf(n \div 10) \o <<Digits[(n % 10) + 1]>>

NumQuestions ==
    {Question("T1", TRUE, <<f.words>>) : f \in NumberForms}
        \cup {Question("T1", TRUE, <<DigitsOf(f.n)>>) : f \in NumberForms}

InitNum == InitAsking(NumQuestions)

NextNum ==
    \E f \in NumberForms :
        \/ /\ selected_questions = <<Question("T1", TRUE, <<f.words>>)>>
           /\ AskQuestion(DigitsOf(f.n))
        \/ /\ selected_questions = <<Question("T1", TRUE, <<DigitsOf(f.n)>>)>>
           /\ AskQuestion(f.words)

SpecNum == InitNum /\ [][NextNum]_vars

(***************************************************************************)
(* normalize_text on its own.                                              *)
(***************************************************************************)
InitNorm ==
    /\ pc = "text"
    /\ store = Absent
    /\ performance = JObj(EmptyDict)
    /\ backend = "no_module"
    /\ key = ""
    /\ selected_questions = <<>>
    /\ NoLocals
    /\ s_in \in RawTexts
    /\ s_out = <<>>

NormalizeText ==
    /\ s_out = <<>>
    /\ s_out' = <<normalize_text(s_in)>>
    /\ UNCHANGED <<pc, store, performance, backend, key, selected_questions, question,
                   user_answer_raw, accepted, matched, rule, score, s_in>>

NextNorm == NormalizeText

SpecNorm == InitNorm /\ [][NextNorm]_vars

(***************************************************************************)
(* Properties of the matching loop (SpecMatch)                             *)
(***************************************************************************)
\* ask_question has run on the reply user_answer_raw
Asked == question # <<>>

\* correct_answers_raw of the question asked
Answers == question[1].answer.items

\* the test of rule n on the reply and the i-th canonical answer, taken alone
Holds(n, i) ==
    CASE n = 1 -> Rule1(normalize_text(user_answer_raw), normalize_text(Answers[i]))
      [] n = 2 -> Rule2(normalize_option(user_answer_raw), normalize_option(Answers[i]))
      [] n = 3 -> Rule3(is_numeric(user_answer_raw), is_numeric(Answers[i]))
      [] n = 4 -> Rule4(normalize_text(user_answer_raw), normalize_text(Answers[i]))
      [] n = 5 -> /\ normalize_text(user_answer_raw) # <<>>
                  /\ normalize_text(Answers[i]) # <<>>
                  /\ AtThreshold(fuzzy_ratio(backend, normalize_text(user_answer_raw),
                                             normalize_text(Answers[i])).value[1])

\* the canonical answers that satisfy some rule
Satisfying == {i \in DOMAIN Answers : \E n \in 1 .. 5 : Holds(n, i)}

\* the i-th canonical answer satisfies the fuzzy rule and no other
FuzzyOnly(i) == Holds(5, i) /\ \A n \in 1 .. 4 : ~Holds(n, i)

\* C9: the loop takes the canonical answers in their order and tries the five
\* rules on each before it goes on; the reply is accepted if and only if some
\* canonical answer satisfies some rule, and then the match reported is the
\* first such answer, in its raw form, by the first rule it satisfies.
C9_FirstSatisfyingCandidate ==
    Asked =>
        LET sat == Satisfying
        IN  /\ pc # "crashed"
            /\ accepted <=> sat # {}
            /\ sat = {} => matched = <<>> /\ rule = 0
            /\ sat # {} =>
                  /\ matched = <<Answers[Min(sat)]>>
                  /\ rule = Min({n \in 1 .. 5 : Holds(n, Min(sat))})

\* a reply rejected by the first canonical answer and accepted by the second,
\* which is reported
C9_Witness ==
    /\ Asked
    /\ Len(Answers) = 2
    /\ Satisfying = {2}
    /\ accepted
    /\ matched = <<Answers[2]>>
    /\ rule = 4

\* C1 as stated: with an exact-match canonical answer and a different
\* fuzzy-only one among the answers, the exact-match one is reported whichever
\* comes first.
C1_ExactWinsAnyOrder ==
    Asked =>
        \A i, j \in DOMAIN Answers :
            (Answers[i] # Answers[j] /\ Holds(1, i) /\ FuzzyOnly(j))
                => accepted /\ matched = <<Answers[i]>>

\* C1 amended: with an exact-match canonical answer and a different fuzzy-only
\* one among the answers, the reply is accepted, and of the two the one that
\* comes first is reported when no answer before it satisfies a rule: the
\* exact-match answer by rule 1 if it precedes, the fuzzy-only answer by rule 5
\* if that one precedes.
C1_EarlierOfTheTwoWins ==
    Asked =>
        \A i, j \in DOMAIN Answers :
            (Answers[i] # Answers[j] /\ Holds(1, i) /\ FuzzyOnly(j)) =>
                /\ accepted
                /\ (i < j /\ \A k \in 1 .. i - 1 : k \notin Satisfying)
                      => matched = <<Answers[i]>> /\ rule = 1
                /\ (j < i /\ \A k \in 1 .. j - 1 : k \notin Satisfying)
                      => matched = <<Answers[j]>> /\ rule = 5

\* the fuzzy-only answer first, the exact one second: the fuzzy-only one reported
C1_Witness ==
    /\ Asked
    /\ Len(Answers) = 2
    /\ Answers[1] # Answers[2]
    /\ FuzzyOnly(1)
    /\ Holds(1, 2)
    /\ matched = <<Answers[1]>>
    /\ rule = 5

\* C3: a reply that normalizes to the empty text is rejected whatever the
\* canonical answers are: no rule accepts it, and nothing is raised.
C3_EmptyReplyRejected ==
    (Asked /\ normalize_text(user_answer_raw) = <<>>) =>
        /\ pc # "crashed"
        /\ ~accepted
        /\ matched = <<>>
        /\ rule = 0

\* a reply of punctuation only, put to a canonical answer that normalizes to
\* the empty text too
C3_Witness ==
    /\ Asked
    /\ user_answer_raw # <<>>
    /\ normalize_text(user_answer_raw) = <<>>
    /\ \E i \in DOMAIN Answers : normalize_text(Answers[i]) = <<>>
    /\ ~accepted

\* the reply and the first canonical answer are one letter each, the same
\* letter in different case
CaseOnlyPair ==
    /\ Asked
    /\ Answers # <<>>
    /\ Len(user_answer_raw) = 1
    /\ Len(Answers[1]) = 1
    /\ user_answer_raw[1] \in LowerSet \cup UpperSet
    /\ Answers[1][1] \in LowerSet \cup UpperSet
    /\ user_answer_raw # Answers[1]
    /\ Lower(user_answer_raw[1]) = Lower(Answers[1][1])

\* C5 as stated: a one-letter reply that differs from a one-letter canonical
\* answer in case only is accepted, and by the option-token rule (rule 2).
C5_AcceptedByOptionRule == CaseOnlyPair => accepted /\ rule = 2

\* C5 amended: such a reply is accepted, by the exact-match rule (rule 1):
\* normalize_text lowercases both, so the first test already holds; the
\* option-token test holds too but is never reached.
C5_AcceptedByExactRule ==
    CaseOnlyPair =>
        /\ accepted
        /\ matched = <<Answers[1]>>
        /\ rule = 1
        /\ Holds(2, 1)

\* "A" answered where the canonical answer is "a"
C5_Witness ==
    /\ CaseOnlyPair
    /\ user_answer_raw = <<"A">>
    /\ Answers[1] = <<"a">>
    /\ accepted

\* rules 1 to 4 fail on the i-th canonical answer and both normalized texts are
\* non-empty: the pass for it reaches the call of _fuzzy_ratio
FuzzyReached(i) ==
    /\ \A n \in 1 .. 4 : ~Holds(n, i)
    /\ normalize_text(user_answer_raw) # <<>>
    /\ normalize_text(Answers[i]) # <<>>

\* the difflib ratio of the reply and the i-th canonical answer, normalized
DifflibScore(i) ==
    DifflibRatio100(normalize_text(user_answer_raw), normalize_text(Answers[i]))

\* C7: nothing the similarity backend does reaches the caller as an error, in
\* any backend state; when rapidfuzz is not importable, lacks token_sort_ratio
\* or raises, the score _fuzzy_ratio returns is the difflib ratio scaled to
\* 0..100 and the reply is accepted or rejected on it: accepted if and only if
\* some canonical answer satisfies one of rules 1 to 4 or has a difflib score
\* of at least 88, and by rule 5 exactly when the last score is at least 88.
C7_FallbackToDifflib ==
    Asked =>
        /\ pc # "crashed"
        /\ backend # "rapidfuzz" =>
              /\ accepted <=> \E i \in DOMAIN Answers :
                                  \/ \E n \in 1 .. 4 : Holds(n, i)
                                  \/ FuzzyReached(i) /\ AtThreshold(DifflibScore(i))
              /\ score # <<>> =>
                    \E i \in DOMAIN Answers : FuzzyReached(i) /\ score[1] = DifflibScore(i)
              /\ rule = 5 <=> (score # <<>> /\ AtThreshold(score[1]))

\* the backend's call raised and the reply was accepted on the difflib score
C7_Witness ==
    /\ Asked
    /\ backend = "raises"
    /\ pc # "crashed"
    /\ accepted
    /\ rule = 5
    /\ score # <<>>
    /\ \E i \in DOMAIN Answers : matched = <<Answers[i]>> /\ score[1] = DifflibScore(i)

\* the reply and the i-th canonical answer are both of several words and begin
\* with the same one-character word, and no rule but the option-token rule
\* holds between them
SharedFirstLetterOnly(i) ==
    /\ Len(Split(normalize_text(user_answer_raw))) >= 2
    /\ Len(Split(normalize_text(Answers[i]))) >= 2
    /\ Len(Split(normalize_text(user_answer_raw))[1]) = 1
    /\ Split(normalize_text(user_answer_raw))[1] = Split(normalize_text(Answers[i]))[1]
    /\ \A n \in {1, 3, 4, 5} : ~Holds(n, i)

\* C10: a reply of several words that shares only its one-character first word
\* with a canonical answer of several words ("a cat" against "a dog") is not
\* accepted by the option-token rule.
C10_OptionRuleNeedsSameOption ==
    Asked =>
        \A i \in DOMAIN Answers :
            SharedFirstLetterOnly(i) => ~(accepted /\ rule = 2 /\ matched = <<Answers[i]>>)

(***************************************************************************)
(* Numbers in words and in digits (SpecNum)                                *)
(***************************************************************************)
\* the reply is the digits of a number and the canonical answer its word form,
\* or the other way round
NumberPair ==
    /\ Asked
    /\ Len(Answers) = 1
    /\ \E f \in NumberForms :
          \/ user_answer_raw = DigitsOf(f.n) /\ Answers[1] = f.words
          \/ user_answer_raw = f.words /\ Answers[1] = DigitsOf(f.n)

\* C4: for every number the word-number mapping expresses, the digits are
\* accepted against the word form and the word form against the digits, by
\* the numeric rule (rule 3).
C4_WordsAndDigitsEquivalent ==
    NumberPair =>
        /\ pc # "crashed"
        /\ accepted
        /\ matched = <<Answers[1]>>
        /\ rule = 3

\* "twenty-one" answered where the canonical answer is "21"
C4_Witness ==
    /\ NumberPair
    /\ user_answer_raw = <<"t", "w", "e", "n", "t", "y", "-", "o", "n", "e">>
    /\ Answers[1] = <<"2", "1">>
    /\ accepted
    /\ rule = 3

(***************************************************************************)
(* normalize_text (SpecNorm)                                               *)
(***************************************************************************)
\* C6: normalize_text applied to its own output gives that output again, and
\* the output holds only lowercase ASCII letters, digits and single spaces,
\* with no space at either end.
C6_NormalizeIdempotent ==
    s_out # <<>> =>
        /\ normalize_text(s_out[1]) = s_out[1]
        /\ \A i \in DOMAIN s_out[1] : s_out[1][i] \in LowerSet \cup DigitSet \cup {" "}
        /\ s_out[1] # <<>> => s_out[1][1] # " " /\ s_out[1][Len(s_out[1])] # " "
        /\ \A i \in 1 .. Len(s_out[1]) - 1 : ~(s_out[1][i] = " " /\ s_out[1][i + 1] = " ")

\* a ligature, a full stop and a capital, normalized to "fi b"
C6_Witness ==
    /\ s_in = <<"U+FB01", ".", "B">>
    /\ s_out = <<<<"f", "i", " ", "b">>>>

(***************************************************************************)
(* The performance mapping (Spec)                                          *)
(***************************************************************************)
\* x is a TopicStat: a mapping that holds the numbers attempted and correct
IsTopicStat(x) ==
    /\ x.t = "obj"
    /\ {"attempted", "correct"} \subseteq DOMAIN x.v
    /\ x.v["attempted"].t = "num"
    /\ x.v["correct"].t = "num"

\* x is a mapping from session key to topic to TopicStat
IsPerformanceMapping(x) ==
    /\ x.t = "obj"
    /\ \A k \in DOMAIN x.v :
          /\ x.v[k].t = "obj"
          /\ \A tp \in DOMAIN x.v[k].v : IsTopicStat(x.v[k].v[tp])

\* the count f of topic tp in session k, 0 where there is no such entry
Count(perf, k, tp, f) ==
    IF /\ perf.t = "obj"
       /\ k \in DOMAIN perf.v
       /\ perf.v[k].t = "obj"
       /\ tp \in DOMAIN perf.v[k].v
       /\ IsTopicStat(perf.v[k].v[tp])
    THEN perf.v[k].v[tp].v[f].v
    ELSE 0

Topics == {"T1", "T2"}

\* every entry has 0 <= correct <= attempted
StatsBounded ==
    \A k \in Keys, tp \in Topics :
        /\ 0 <= Count(performance, k, tp, "correct")
        /\ Count(performance, k, tp, "correct") <= Count(performance, k, tp, "attempted")

\* a call of ask_question on a valid performance mapping returns, adds 1 to
\* attempted of the question's topic, adds 1 to its correct if and only if the
\* answer was accepted, and leaves every other entry as it was
CountStep ==
    (pc = "asking" /\ IsPerformanceMapping(performance)) =>
        /\ pc' # "crashed"
        /\ IsPerformanceMapping(performance')
        /\ Count(performance', key, question'[1].topic, "attempted")
              = Count(performance, key, question'[1].topic, "attempted") + 1
        /\ Count(performance', key, question'[1].topic, "correct")
              = Count(performance, key, question'[1].topic, "correct")
                    + (IF accepted' THEN 1 ELSE 0)
        /\ \A k \in Keys, tp \in Topics, f \in {"attempted", "correct"} :
              <<k, tp>> # <<key, question'[1].topic>>
                  => Count(performance', k, tp, f) = Count(performance, k, tp, f)

\* C2: whatever questions are asked, every TopicStat of the performance mapping
\* keeps 0 <= correct <= attempted; from an empty or any valid mapping, each
\* call of ask_question adds exactly 1 to
\* attempted of the question's topic, accepted or not, and exactly 1 to its
\* correct if and only if the answer was accepted.
C2_CountsKept == []StatsBounded /\ [][CountStep]_vars

\* a topic answered once wrongly and once rightly in one session
C2_Witness ==
    /\ Asked
    /\ accepted
    /\ key = "GCSE_Maths"
    /\ performance.t = "obj"
    /\ Count(performance, key, "T1", "attempted") = 2
    /\ Count(performance, key, "T1", "correct") = 1
    /\ store = Absent

\* main_menu holds what load_performance returned: nothing has been started or
\* cleared since
JustLoaded == pc \in {"menu", "pause"} /\ key = "" /\ store.dump = <<>>

\* C8: load_performance never fails and what it returns is a mapping from
\* session key to topic to {attempted, correct}: the empty mapping when the
\* file is absent, empty or holds anything that is not such a mapping.
C8_LoadGivesMapping ==
    JustLoaded =>
        /\ IsPerformanceMapping(performance)
        /\ (store.exists /\ json_loads(store.text).raised) => performance = JObj(EmptyDict)
        /\ ~store.exists => performance = JObj(EmptyDict)

====
